---- MODULE Spec2Model ----
(***************************************************************************)
(* A model of ahg, a small git object store (src/ahg/git.py,               *)
(* src/ahg/commands.py): the object framing and storage protocol, the      *)
(* KVLM codec of commits and tags, the tree codec and the commit graph     *)
(* traversal.                                                              *)
(*                                                                         *)
(* Byte strings are sequences of byte values 0..255.  Python's indices are *)
(* 0-based, so every helper below takes and returns 0-based positions and  *)
(* only the innermost access adds one.  An exception is a result whose err *)
(* field names the exception; "none" is a normal return.                   *)
(***************************************************************************)
EXTENDS Integers, Sequences, FiniteSets, TLC

VARIABLES
    dirs,   \* the two-character subdirectories that exist under objects/
    files,  \* the object files: identity (40 hex characters) -> file bytes
    held,   \* the object the caller holds in memory, or NoObject
    last,   \* what the last operation was given, did and returned
    kv,     \* the KVLM codec pipeline: input, parse, serialize, parse again
    graph,  \* the commit ancestry the other git client recorded (ghost)
    work,   \* the checkout destination: path below it -> directory or file
    procs   \* the concurrent object_write and object_read calls in progress

vars == <<dirs, files, held, last, kv, graph, work, procs>>

(***************************************************************************)
(* Bytes                                                                   *)
(***************************************************************************)
SP == 32
NL == 10
NUL == 0
SLASH == 47
QUOTE == 34
BACKSLASH == 92

b_blob == <<98, 108, 111, 98>>
b_tree == <<116, 114, 101, 101>>
b_commit == <<99, 111, 109, 109, 105, 116>>
b_tag == <<116, 97, 103>>
b_parent == <<112, 97, 114, 101, 110, 116>>
b_author == <<97, 117, 116, 104, 111, 114>>
b_committer == <<99, 111, 109, 109, 105, 116, 116, 101, 114>>
b_gpgsig == <<103, 112, 103, 115, 105, 103>>

\* byte * n
Rep(n, byte) == [i \in 1..n |-> byte]

\* Python's slice index normalisation: a negative index counts from the end,
\* and the result is clamped to 0..n.
Norm(i, n) == IF i < 0 THEN (IF n + i < 0 THEN 0 ELSE n + i)
              ELSE IF i > n THEN n ELSE i

\* raw[a:b]
Slice(raw, a, b) ==
    LET n == Len(raw)
        lo == Norm(a, n)
        hi == Norm(b, n)
    IN IF hi <= lo THEN <<>> ELSE SubSeq(raw, lo + 1, hi)

\* raw[a:]
SliceFrom(raw, a) == Slice(raw, a, Len(raw))

\* raw.find(byte, start): the first position >= start holding byte, or -1.
RECURSIVE FindFrom(_, _, _)
FindFrom(raw, byte, i) ==
    IF i >= Len(raw) THEN -1
    ELSE IF raw[i + 1] = byte THEN i
    ELSE FindFrom(raw, byte, i + 1)

Find(raw, byte, start) == FindFrom(raw, byte, Norm(start, Len(raw)))

StartsWith(b, pat) == Len(b) >= Len(pat) /\ SubSeq(b, 1, Len(pat)) = pat

\* The first position >= i where pat occurs in b, or -1.
RECURSIVE FindSeq(_, _, _)
FindSeq(b, pat, i) ==
    IF i + Len(pat) > Len(b) THEN -1
    ELSE IF SubSeq(b, i + 1, i + Len(pat)) = pat THEN i
    ELSE FindSeq(b, pat, i + 1)

\* b.replace(pat, rep), pat not empty: left to right, not overlapping.
RECURSIVE Replace(_, _, _)
Replace(b, pat, rep) ==
    IF FindSeq(b, pat, 0) < 0 THEN b
    ELSE SubSeq(b, 1, FindSeq(b, pat, 0)) \o rep
            \o Replace(SubSeq(b, FindSeq(b, pat, 0) + Len(pat) + 1, Len(b)), pat, rep)

(***************************************************************************)
(* Python values of the KVLM mapping.  A value is a byte string or a list  *)
(* whose elements are values again; a key is a byte string or None.  The   *)
(* OrderedDict is the sequence of its <<key, value>> pairs in insertion    *)
(* order.                                                                  *)
(***************************************************************************)
Bytes(b) == <<"bytes", b>>
PyList(items) == <<"list", items>>
KeyNone == <<"None", <<>>>>
IsBytes(v) == v[1] = "bytes"
IsPyList(v) == v[1] = "list"

HasKey(dct, k) == \E i \in 1..Len(dct) : dct[i][1] = k
GetItem(dct, k) == dct[CHOOSE i \in 1..Len(dct) : dct[i][1] = k][2]
\* dct[k] = v: an existing key keeps its place, a new one goes last.
SetItem(dct, k, v) ==
    IF HasKey(dct, k)
    THEN [i \in 1..Len(dct) |-> IF dct[i][1] = k THEN <<k, v>> ELSE dct[i]]
    ELSE Append(dct, <<k, v>>)

\* "dct[key] is list", "val is not list", "parents is not list": the value is
\* compared with the type object list itself, which no value is.
IsTheListType(v) == FALSE

Raise(e) == [dct |-> <<>>, err |-> e]
Return(d) == [dct |-> d, err |-> "none"]

(***************************************************************************)
(* kvlm_parse                                                              *)
(***************************************************************************)
\* The while True loop of kvlm_parse: end = raw.find(b"\n", end + 1) until
\* raw[end + 1] is not a space.  raw[end + 1] past the last byte is an
\* IndexError.  A scan that does not stop within Len(raw) + 2 steps has come
\* back to a position it was at (find returned -1 and raw[0] is a space) and
\* never stops: "hang".
RECURSIVE kvlm_scan(_, _, _)
kvlm_scan(raw, end, steps) ==
    LET e == Find(raw, NL, end + 1)
    IN IF steps > Len(raw) + 2 THEN [err |-> "hang", end |-> e]
       ELSE IF e + 1 >= Len(raw) THEN [err |-> "IndexError", end |-> e]
       ELSE IF raw[e + 2] # SP THEN [err |-> "none", end |-> e]
       ELSE kvlm_scan(raw, e, steps + 1)

\* kvlm_parse(raw, start, dct).  depth counts the recursive calls: a parse
\* that recurses more than Len(raw) + 1 times has come back to a start it was
\* at and recurses until Python's RecursionError.
RECURSIVE kvlm_parse_at(_, _, _, _)
kvlm_parse_at(raw, start, dct, depth) ==
    LET spc == Find(raw, SP, start)
        nl == Find(raw, NL, start)
    IN IF depth > Len(raw) + 1 THEN Raise("RecursionError")
       ELSE IF spc < 0 \/ nl < spc
       THEN IF nl # start THEN Raise("AssertionError")
            ELSE Return(SetItem(dct, KeyNone, Bytes(SliceFrom(raw, start + 1))))
       ELSE LET key == Bytes(Slice(raw, start, spc))
                sc == kvlm_scan(raw, start, 0)
            IN IF sc.err # "none" THEN Raise(sc.err)
               ELSE LET value == Bytes(Replace(Slice(raw, spc + 1, sc.end),
                                               <<NL, SP>>, <<NL>>))
                        dct2 ==
                            IF HasKey(dct, key)
                            THEN IF IsTheListType(GetItem(dct, key))
                                 THEN SetItem(dct, key,
                                        PyList(Append(GetItem(dct, key)[2], value)))
                                 ELSE SetItem(dct, key,
                                        PyList(<<GetItem(dct, key), value>>))
                            ELSE SetItem(dct, key, value)
                    IN kvlm_parse_at(raw, sc.end + 1, dct2, depth + 1)

kvlm_parse(raw) == kvlm_parse_at(raw, 0, <<>>, 0)

(***************************************************************************)
(* kvlm_serialize                                                          *)
(***************************************************************************)
\* "if not k": None and the empty byte string are skipped.
KeyIsFalsy(k) == k = KeyNone \/ k = Bytes(<<>>)

\* for v in val: ret += k + b" " + v.replace(b"\n", b"\n ") + b"\n"; a list
\* has no replace, which is an AttributeError.
RECURSIVE kvlm_emit(_, _, _)
kvlm_emit(k, val, ret) ==
    IF val = <<>> THEN [err |-> "none", ret |-> ret]
    ELSE IF ~IsBytes(Head(val)) THEN [err |-> "AttributeError", ret |-> ret]
    ELSE kvlm_emit(k, Tail(val),
                   ret \o k[2] \o <<SP>> \o Replace(Head(val)[2], <<NL>>, <<NL, SP>>)
                       \o <<NL>>)

RECURSIVE kvlm_serialize_from(_, _, _)
kvlm_serialize_from(kvlm, i, ret) ==
    IF i > Len(kvlm)
    THEN IF ~HasKey(kvlm, KeyNone) THEN [err |-> "KeyError", ret |-> <<>>]
         ELSE [err |-> "none", ret |-> ret \o <<NL>> \o GetItem(kvlm, KeyNone)[2] \o <<NL>>]
    ELSE IF KeyIsFalsy(kvlm[i][1]) THEN kvlm_serialize_from(kvlm, i + 1, ret)
    ELSE LET val == IF ~IsTheListType(kvlm[i][2]) THEN <<kvlm[i][2]>>
                    ELSE kvlm[i][2][2]
             em == kvlm_emit(kvlm[i][1], val, ret)
         IN IF em.err # "none" THEN [err |-> em.err, ret |-> <<>>]
            ELSE kvlm_serialize_from(kvlm, i + 1, em.ret)

kvlm_serialize(kvlm) == kvlm_serialize_from(kvlm, 1, <<>>)

(***************************************************************************)
(* The tree codec                                                          *)
(***************************************************************************)
DigestSize == 20

HexDigit(n) == IF n < 10 THEN 48 + n ELSE 87 + n
HexValue(c) == IF c >= 48 /\ c <= 57 THEN c - 48 ELSE c - 87

\* Two lower-case hex characters per byte.
HexOf(bs) ==
    [i \in 1..(2 * Len(bs)) |->
        IF i % 2 = 1 THEN HexDigit(bs[(i + 1) \div 2] \div 16)
        ELSE HexDigit(bs[i \div 2] % 16)]

\* format(int.from_bytes(bs, "big"), "040x"): at most DigestSize bytes come
\* from the slice; a shorter tail is padded with zeros on the left.
FormatSha(bs) == Rep(2 * (DigestSize - Len(bs)), 48) \o HexOf(bs)

\* int(sha, 16).to_bytes(20, byteorder="big") of a sha of at most 40 hex
\* characters.
ShaToBytes(sha) ==
    LET hex == Rep(2 * DigestSize - Len(sha), 48) \o sha
    IN [i \in 1..DigestSize |->
            16 * HexValue(hex[2 * i - 1]) + HexValue(hex[2 * i])]

IsAscii(b) == \A i \in 1..Len(b) : b[i] < 128

\* tree_parse_one(raw, start): (next position, leaf).  The path is decoded as
\* UTF-8; the model holds ASCII paths, and any byte of 128 or more is taken
\* to be an invalid sequence.
tree_parse_one(raw, start) ==
    LET x == Find(raw, SP, start)
        mode0 == Slice(raw, start, x)
        mode == IF Len(mode0) = 5 THEN <<SP>> \o mode0 ELSE mode0
        y == Find(raw, NUL, x)
        path == Slice(raw, x + 1, y)
        sha == FormatSha(Slice(raw, y + 1, y + 1 + DigestSize))
    IN IF ~(x - start = 5 \/ x - start = 6)
       THEN [err |-> "AssertionError", pos |-> start, leaf |-> <<>>]
       ELSE IF ~IsAscii(path)
       THEN [err |-> "UnicodeDecodeError", pos |-> start, leaf |-> <<>>]
       ELSE [err |-> "none", pos |-> y + 1 + DigestSize,
             leaf |-> [sha |-> sha, mode |-> mode, path |-> path]]

\* tree_parse(raw): while pos < max.  A loop that has not ended after
\* Len(raw) + 1 entries is at a position it was at before (no NUL was found,
\* so pos is DigestSize again) and never ends: "hang".
RECURSIVE tree_parse_from(_, _, _, _)
tree_parse_from(raw, pos, ret, steps) ==
    IF ~(pos < Len(raw)) THEN [items |-> ret, err |-> "none"]
    ELSE IF steps > Len(raw) + 1 THEN [items |-> <<>>, err |-> "hang"]
    ELSE LET one == tree_parse_one(raw, pos)
         IN IF one.err # "none" THEN [items |-> <<>>, err |-> one.err]
            ELSE tree_parse_from(raw, one.pos, Append(ret, one.leaf), steps + 1)

tree_parse(raw) == tree_parse_from(raw, 0, <<>>, 0)

b_10 == <<49, 48>>

\* The path alone as the key, whatever the mode.
tree_leaf_path_key(leaf) == leaf.path

tree_leaf_sort_key(leaf) ==
    IF StartsWith(leaf.mode, b_10) THEN leaf.path ELSE leaf.path \o <<SLASH>>

\* a < b for strings: by code point, a proper prefix first.
RECURSIVE StrLess(_, _)
StrLess(a, b) ==
    IF b = <<>> THEN FALSE
    ELSE IF a = <<>> THEN TRUE
    ELSE IF Head(a) # Head(b) THEN Head(a) < Head(b)
    ELSE StrLess(Tail(a), Tail(b))

\* One leaf put into a list sorted by key, after the leaves whose key is not
\* greater: list.sort is stable.
RECURSIVE SortedInsert(_, _)
SortedInsert(sorted, leaf) ==
    IF sorted = <<>> THEN <<leaf>>
    ELSE IF StrLess(tree_leaf_sort_key(leaf), tree_leaf_sort_key(Head(sorted)))
    THEN <<leaf>> \o sorted
    ELSE <<Head(sorted)>> \o SortedInsert(Tail(sorted), leaf)

\* obj.items.sort(key=tree_leaf_sort_key)
RECURSIVE SortItems(_)
SortItems(items) ==
    IF items = <<>> THEN <<>>
    ELSE SortedInsert(SortItems(SubSeq(items, 1, Len(items) - 1)),
                      items[Len(items)])

RECURSIVE tree_emit(_)
tree_emit(items) ==
    IF items = <<>> THEN <<>>
    ELSE Head(items).mode \o <<SP>> \o Head(items).path \o <<NUL>>
             \o ShaToBytes(Head(items).sha) \o tree_emit(Tail(items))

\* tree_serialize(obj): the items are sorted in place, then emitted.
tree_serialize(items) ==
    [items |-> SortItems(items), ret |-> tree_emit(SortItems(items))]

(***************************************************************************)
(* The object model                                                        *)
(***************************************************************************)
\* An object: fmt is the class's type tag; has_blobdata says whether the
\* attribute blobdata was ever assigned.
NoObject == [items |-> <<>>, kvlm |-> <<>>, fmt |-> <<>>,
             has_blobdata |-> FALSE, blobdata |-> <<>>]
Formats == {b_blob, b_tree, b_commit, b_tag}

\* GitBlob(data): GitObject.__init__ calls deserialize only "if data", so empty
\* data leaves blobdata unassigned.
GitBlob(data) ==
    [err |-> "none",
     obj |-> [NoObject EXCEPT !.fmt = b_blob, !.has_blobdata = (data # <<>>),
                              !.blobdata = data]]

\* GitCommit(data), and GitTag(data) with its own fmt: super().__init__(data)
\* parses the data into self.kvlm, then the constructor's last line assigns
\* self.kvlm = dict().
GitCommit(fmt, data) ==
    LET parsed == IF data # <<>> THEN kvlm_parse(data) ELSE Return(<<>>)
        kvlm_after_super == parsed.dct
        kvlm_after_init == <<>>
    IN IF parsed.err # "none" THEN [err |-> parsed.err, obj |-> NoObject]
       ELSE [err |-> "none",
             obj |-> [NoObject EXCEPT !.fmt = fmt, !.kvlm = kvlm_after_init]]

\* GitTree(data): super().__init__(data) parses the data into self.items, then
\* the constructor's last line assigns self.items = list().
GitTree(data) ==
    LET parsed == IF data # <<>> THEN tree_parse(data)
                  ELSE [items |-> <<>>, err |-> "none"]
        items_after_super == parsed.items
        items_after_init == <<>>
    IN IF parsed.err # "none" THEN [err |-> parsed.err, obj |-> NoObject]
       ELSE [err |-> "none",
             obj |-> [NoObject EXCEPT !.fmt = b_tree, !.items = items_after_init]]

\* The class a type tag selects (object_read, object_hash), called with data.
Construct(fmt, data) ==
    IF fmt = b_blob THEN GitBlob(data)
    ELSE IF fmt = b_tree THEN GitTree(data)
    ELSE GitCommit(fmt, data)

\* obj.serialize(): the bytes, and the object as the call leaves it.
Serialize(obj) ==
    IF obj.fmt = b_blob
    THEN IF obj.has_blobdata THEN [err |-> "none", ret |-> obj.blobdata, obj |-> obj]
         ELSE [err |-> "AttributeError", ret |-> <<>>, obj |-> obj]
    ELSE IF obj.fmt = b_tree
    THEN LET t == tree_serialize(obj.items)
         IN [err |-> "none", ret |-> t.ret, obj |-> [obj EXCEPT !.items = t.items]]
    ELSE LET k == kvlm_serialize(obj.kvlm)
         IN [err |-> k.err, ret |-> k.ret, obj |-> obj]

(***************************************************************************)
(* Framing, identity and compression                                       *)
(***************************************************************************)
\* str(n).encode() for n >= 0
RECURSIVE Decimal(_)
Decimal(n) == IF n < 10 THEN <<48 + n>> ELSE Decimal(n \div 10) \o <<48 + (n % 10)>>

Whitespace == {9, 10, 11, 12, 13, 32}
RECURSIVE LStrip(_)
LStrip(b) == IF b # <<>> /\ Head(b) \in Whitespace THEN LStrip(Tail(b)) ELSE b
RECURSIVE RStrip(_)
RStrip(b) == IF b # <<>> /\ b[Len(b)] \in Whitespace
             THEN RStrip(SubSeq(b, 1, Len(b) - 1)) ELSE b
Strip(b) == RStrip(LStrip(b))

IsDigit(c) == c >= 48 /\ c <= 57
\* Python's decimal literal: digits, single underscores between digits.
ValidDigits(d) ==
    /\ d # <<>>
    /\ \A i \in 1..Len(d) :
          \/ IsDigit(d[i])
          \/ d[i] = 95 /\ i > 1 /\ i < Len(d) /\ IsDigit(d[i - 1]) /\ IsDigit(d[i + 1])
RECURSIVE DigitsValue(_, _)
DigitsValue(d, acc) ==
    IF d = <<>> \/ acc < 0 THEN acc
    ELSE IF Head(d) = 95 THEN DigitsValue(Tail(d), acc)
    ELSE DigitsValue(Tail(d), 10 * acc + (Head(d) - 48))

\* int(b.decode("ascii")): white space around the number, a sign before it.
PyInt(b) ==
    LET t == Strip(b)
        signed == t # <<>> /\ Head(t) \in {43, 45}
        body == IF signed THEN Tail(t) ELSE t
        v == DigitsValue(body, 0)
    IN IF ~IsAscii(b) THEN [err |-> "UnicodeDecodeError", val |-> 0]
       ELSE IF ~ValidDigits(body) THEN [err |-> "ValueError", val |-> 0]
       ELSE [err |-> "none", val |-> IF signed /\ Head(t) = 45 THEN 0 - v ELSE v]

\* obj.fmt + b" " + str(len(data)).encode() + b"\x00" + data
Frame(fmt, data) == fmt \o <<SP>> \o Decimal(Len(data)) \o <<NUL>> \o data

\* hashlib.sha1 is a library: the model's digest is two running sums of the
\* bytes, laid out in DigestSize bytes.  The first byte, which names the
\* subdirectory, takes one of FanOut values, so that distinct objects share
\* subdirectories.  NoCollision states that the digest tells the frames of the
\* model apart, as SHA-1 is trusted to.
FanOut == 2

RECURSIVE Fold(_, _, _, _, _)
Fold(b, i, h, mult, mod) ==
    IF i > Len(b) \/ h < 0 THEN h
    ELSE Fold(b, i + 1, (h * mult + b[i] + 1) % mod, mult, mod)

Sha1(frame) ==
    LET h1 == Fold(frame, 1, 7, 31, 16777213)
        h2 == Fold(frame, 1, 11, 37, 16777199)
    IN <<h1 % FanOut>> \o Rep(DigestSize - 7, 0)
         \o <<h1 \div 65536, (h1 \div 256) % 256, h1 % 256,
              h2 \div 65536, (h2 \div 256) % 256, h2 % 256>>

\* hashlib.sha1(result).hexdigest()
Sha1Hex(frame) == HexOf(Sha1(frame))

\* zlib is a library: the compressed form is the zlib header and the bytes.
ZlibHeader == <<120, 156>>
ZlibCompress(b) == ZlibHeader \o b
ZlibDecompress(c) ==
    IF StartsWith(c, ZlibHeader)
    THEN [raw |-> SubSeq(c, Len(ZlibHeader) + 1, Len(c)), err |-> "none"]
    ELSE [raw |-> <<>>, err |-> "zlib.error"]

(***************************************************************************)
(* The object store                                                        *)
(***************************************************************************)
\* The path of an identity under objects/: <<sha[0:2], sha[2:]>>.
ObjectPath(sha) == <<Slice(sha, 0, 2), SliceFrom(sha, 2)>>

\* repo_dir(repo, "objects", d, mkdir=mkdir): the path, or None; with mkdir an
\* absent directory is created.
repo_dir(ds, d, mkdir) ==
    IF d \in ds THEN [dirs |-> ds, path |-> "path"]
    ELSE IF mkdir THEN [dirs |-> ds \cup {d}, path |-> "path"]
    ELSE [dirs |-> ds, path |-> "None"]

\* repo_file(repo, "objects", sha[0:2], sha[2:], mkdir=mkdir): the file's path
\* if repo_dir gives its directory, and None otherwise.
repo_file(ds, sha, mkdir) == repo_dir(ds, ObjectPath(sha)[1], mkdir)

ReadFails(e) == [err |-> e, obj |-> NoObject]

\* object_read(repo, sha).  The three exceptions the function raises itself
\* are named after their messages: ObjectNotFound ("Object ... not found!"),
\* MalformedObject ("Malformed object ...: bad length") and UnknownObjectType
\* ("Unknown type ...").  os.path.isfile(None) is a TypeError.
object_read(ds, fs, sha) ==
    LET path == repo_file(ds, sha, FALSE).path
    IN IF path = "None" THEN ReadFails("TypeError")
       ELSE IF ObjectPath(sha) \notin DOMAIN fs THEN ReadFails("ObjectNotFound")
       ELSE LET z == ZlibDecompress(fs[ObjectPath(sha)])
                raw == z.raw
                x == Find(raw, SP, 0)
                fmt == Slice(raw, 0, x)
                y == Find(raw, NUL, x)
                size == PyInt(Slice(raw, x, y))
            IN IF z.err # "none" THEN ReadFails(z.err)
               ELSE IF size.err # "none" THEN ReadFails(size.err)
               ELSE IF size.val # Len(raw) - y - 1 THEN ReadFails("MalformedObject")
               ELSE IF fmt \notin Formats
               THEN IF IsAscii(fmt) THEN ReadFails("UnknownObjectType")
                    ELSE ReadFails("UnicodeDecodeError")
               ELSE Construct(fmt, SliceFrom(raw, y + 1))

\* object_write(obj, repo), repo given or None: the identity, the store and
\* the object as the call leaves them, and whether the file was opened for
\* writing.
object_write(obj, repo, ds, fs) ==
    LET ser == Serialize(obj)
        result == Frame(obj.fmt, ser.ret)
        sha == Sha1Hex(result)
        dir == repo_file(ds, sha, TRUE)
        absent == ObjectPath(sha) \notin DOMAIN fs
    IN IF ser.err # "none"
       THEN [dirs |-> ds, files |-> fs, err |-> ser.err, sha |-> <<>>,
             obj |-> ser.obj, wrote |-> FALSE]
       ELSE IF ~repo
       THEN [dirs |-> ds, files |-> fs, err |-> "none", sha |-> sha,
             obj |-> ser.obj, wrote |-> FALSE]
       ELSE [dirs |-> dir.dirs,
             files |-> IF absent
                       THEN [p \in DOMAIN fs \cup {ObjectPath(sha)} |->
                               IF p = ObjectPath(sha) THEN ZlibCompress(result)
                               ELSE fs[p]]
                       ELSE fs,
             err |-> "none", sha |-> sha, obj |-> ser.obj, wrote |-> absent]

\* object_hash(fd, fmt, repo): the object is built from the file's bytes and
\* written.  (c ranges over the one constructor result, so that it is
\* evaluated once.)
object_hash(data, fmt, repo, ds, fs) ==
    CHOOSE w \in
        { IF fmt \notin Formats
          THEN [dirs |-> ds, files |-> fs, err |-> "Exception", sha |-> <<>>,
                obj |-> NoObject, wrote |-> FALSE]
          ELSE IF c.err # "none"
          THEN [dirs |-> ds, files |-> fs, err |-> c.err, sha |-> <<>>,
                obj |-> NoObject, wrote |-> FALSE]
          ELSE object_write(c.obj, repo, ds, fs) : c \in {Construct(fmt, data)} } : TRUE

(***************************************************************************)
(* log_graphviz                                                            *)
(***************************************************************************)
\* The label's message: decoded, stripped, backslash and double quote
\* escaped, cut at its first newline.
LogMessage(msg) ==
    LET stripped == Strip(msg)
        escaped == Replace(Replace(stripped, <<BACKSLASH>>, <<BACKSLASH, BACKSLASH>>),
                           <<QUOTE>>, <<BACKSLASH, QUOTE>>)
        cut == Find(escaped, NL, 0)
    IN IF cut >= 0 THEN Slice(escaped, 0, cut) ELSE escaped

\* print(f'  c_{sha} [label="{short_hash}: {message}"]')
NodeLine(sha, msg) == <<"node", sha, Slice(sha, 0, 8), LogMessage(msg)>>
\* print(f"  c_{sha} -> c_{p}")
EdgeLine(sha, p) == <<"edge", sha, p, <<>>>>

\* log_graphviz(repo, sha, seen).  st is the traversal so far: the seen set,
\* the lines printed, the identities object_read was called with, and the
\* exception that ended it, if any.  An exception ends every enclosing call.
RECURSIVE log_graphviz(_, _, _, _)
RECURSIVE log_parents(_, _, _, _, _)
log_parents(ds, fs, sha, parents, st) ==
    IF parents = <<>> \/ st.err # "none" THEN st
    ELSE IF ~IsBytes(Head(parents)) THEN [st EXCEPT !.err = "AttributeError"]
    ELSE log_parents(ds, fs, sha, Tail(parents),
            log_graphviz(ds, fs, Head(parents)[2],
                [st EXCEPT !.out = Append(@, EdgeLine(sha, Head(parents)[2]))]))

log_visit(ds, fs, sha, st, r) ==
    IF r.err # "none" THEN [st EXCEPT !.err = r.err]
    ELSE IF r.obj.fmt \notin {b_commit, b_tag} THEN [st EXCEPT !.err = "AssertionError"]
    ELSE IF ~HasKey(r.obj.kvlm, KeyNone) THEN [st EXCEPT !.err = "KeyError"]
    ELSE IF ~HasKey(r.obj.kvlm, Bytes(b_parent))
    THEN [st EXCEPT !.out = Append(@, NodeLine(sha, GetItem(r.obj.kvlm, KeyNone)[2]))]
    ELSE log_parents(ds, fs, sha,
            IF ~IsTheListType(GetItem(r.obj.kvlm, Bytes(b_parent)))
            THEN <<GetItem(r.obj.kvlm, Bytes(b_parent))>>
            ELSE GetItem(r.obj.kvlm, Bytes(b_parent))[2],
            [st EXCEPT !.out = Append(@, NodeLine(sha, GetItem(r.obj.kvlm, KeyNone)[2]))])

log_graphviz(ds, fs, sha, st) ==
    IF sha \in st.seen THEN st
    ELSE CHOOSE t \in
            { log_visit(ds, fs, sha,
                        [st EXCEPT !.seen = @ \cup {sha}, !.loads = Append(@, sha)], r)
              : r \in {object_read(ds, fs, sha)} } : TRUE

(***************************************************************************)
(* The KVLM codec on its own: an input text is parsed, the mapping is      *)
(* serialized, and the output is parsed again.                             *)
(***************************************************************************)
MaxHeaders == 4

v_hexA == Rep(40, 97)
v_hexB == Rep(40, 98)
v_hexC == Rep(40, 99)
\* A <a@x> 0 +0000
v_person == <<65, 32, 60, 97, 64, 120, 62, 32, 48, 32, 43, 48, 48, 48, 48>>
\* a value of two lines, folded on the wire
v_twoLines == <<120, NL, 121>>
\* fix bug\n
v_fixBug == <<102, 105, 120, 32, 98, 117, 103, NL>>

\* The header lines an input is made of, as <<key, value>>.
KvLines == { <<b_tree, v_hexA>>, <<b_parent, v_hexB>>, <<b_parent, v_hexC>>,
             <<b_author, v_person>>, <<b_committer, v_person>>,
             <<b_gpgsig, v_twoLines>> }
KvMessages == { <<>>, v_fixBug }
KvHeaders == UNION {[1..n -> KvLines] : n \in 0..MaxHeaders}

\* The text of a header list and a message: key SP value NL per line, the
\* value's newlines folded (newline, space), then a blank line and the message.
RECURSIVE KvText(_, _)
KvText(hdr, msg) ==
    IF hdr = <<>> THEN <<NL>> \o msg
    ELSE Head(hdr)[1] \o <<SP>> \o Replace(Head(hdr)[2], <<NL>>, <<NL, SP>>)
             \o <<NL>> \o KvText(Tail(hdr), msg)

NoParse == [dct |-> <<>>, err |-> "unset"]
NoSer == [err |-> "unset", ret |-> <<>>]
KvIdle == [x |-> <<>>, p |-> NoParse, msg |-> <<>>, hdr |-> <<>>,
           stage |-> "idle", s |-> NoSer, p2 |-> NoParse]

\* What a call was and gave: the part of it a later call is compared with.
Summary(l) == [err |-> l.err, sha |-> l.sha, repo |-> l.repo, op |-> l.op]
NoCall == [err |-> "none", sha |-> <<>>, repo |-> FALSE, op |-> "none"]

\* The last call, as the caller saw it; for an object_write also the call
\* before it, for an object_hash the type and bytes it was given, for a
\* checkout the destination as it was before.
NoOp == [err |-> "none", sha |-> <<>>, fmt |-> <<>>, data |-> <<>>,
         obj |-> NoObject, repo |-> FALSE, wrote |-> FALSE, out |-> <<>>,
         loads |-> <<>>, op |-> "none", seen0 |-> {}, prev |-> NoCall,
         pre |-> <<>>]

StoreIdle ==
    /\ dirs = {}
    /\ files = <<>>
    /\ held = NoObject
    /\ last = NoOp
    /\ graph = <<>>
    /\ work = <<>>
    /\ procs = <<>>

InitKvlm ==
    /\ \E hdr \in KvHeaders, msg \in KvMessages :
          kv = [KvIdle EXCEPT !.stage = "input", !.hdr = hdr, !.msg = msg,
                              !.x = KvText(hdr, msg)]
    /\ StoreIdle

KvParse ==
    /\ kv.stage = "input"
    /\ kv' = [kv EXCEPT !.stage = "parsed", !.p = kvlm_parse(kv.x)]
    /\ UNCHANGED <<dirs, files, held, last, graph, work, procs>>

KvSerialize ==
    /\ kv.stage = "parsed"
    /\ kv.p.err = "none"
    /\ kv' = [kv EXCEPT !.stage = "serialized", !.s = kvlm_serialize(kv.p.dct)]
    /\ UNCHANGED <<dirs, files, held, last, graph, work, procs>>

KvReparse ==
    /\ kv.stage = "serialized"
    /\ kv.s.err = "none"
    /\ kv' = [kv EXCEPT !.stage = "reparsed", !.p2 = kvlm_parse(kv.s.ret)]
    /\ UNCHANGED <<dirs, files, held, last, graph, work, procs>>

NextKvlm == KvParse \/ KvSerialize \/ KvReparse

SpecKvlm == InitKvlm /\ [][NextKvlm]_vars

(***************************************************************************)
(* Claims about the KVLM codec (SpecKvlm).  Every input of InitKvlm is     *)
(* well formed: header lines, one blank line, a message.                   *)
(***************************************************************************)
SingleValued(hdr) == \A i, j \in 1..Len(hdr) : hdr[i][1] = hdr[j][1] => i = j
CommitKeys == {b_tree, b_parent, b_author, b_committer}
KeysOf(hdr) == {hdr[i][1] : i \in 1..Len(hdr)}
LinesOf(hdr, key) == SelectSeq(hdr, LAMBDA l : l[1] = key)
IsInfix(pat, text) ==
    \E i \in 0..(Len(text) - Len(pat)) : SubSeq(text, i + 1, i + Len(pat)) = pat
RECURSIVE HeaderText(_)
HeaderText(hdr) ==
    IF hdr = <<>> THEN <<>>
    ELSE Head(hdr)[1] \o <<SP>> \o Replace(Head(hdr)[2], <<NL>>, <<NL, SP>>)
             \o <<NL>> \o HeaderText(Tail(hdr))

\* C4: for every well-formed input x, kvlm_serialize accepts kvlm_parse(x) and
\* parsing its output gives kvlm_parse(x) again: the same keys in the same
\* order, the same values, the same message.
C4_RoundTripLaw ==
    /\ kv.stage = "parsed" => kv.p.err = "none"
    /\ kv.stage = "serialized" => kv.s.err = "none"
    /\ kv.stage = "reparsed" => kv.p2 = kv.p

\* C5: for a text x of single-valued tree, parent, author and committer lines,
\* a blank line and a message ending in a newline,
\* kvlm_serialize(kvlm_parse(x)) is x byte for byte.
C5_ByteIdentical ==
    ( /\ kv.stage = "serialized"
      /\ SingleValued(kv.hdr)
      /\ kv.hdr # <<>>
      /\ KeysOf(kv.hdr) \subseteq CommitKeys
      /\ kv.msg # <<>>
      /\ kv.msg[Len(kv.msg)] = NL )
    => (kv.s.err = "none" /\ kv.s.ret = kv.x)

\* C6: a key that appears on n >= 2 header lines is stored as one flat list of
\* its n values in order of appearance, and kvlm_serialize emits those n
\* "key SP value NL" lines again, in that order.
C6_MultiValue ==
    \A key \in KeysOf(kv.hdr) :
        LET lines == LinesOf(kv.hdr, key)
        IN Len(lines) >= 2 =>
            /\ kv.stage \in {"parsed", "serialized", "reparsed"} =>
                  /\ kv.p.err = "none"
                  /\ GetItem(kv.p.dct, Bytes(key)) =
                         PyList([i \in 1..Len(lines) |-> Bytes(lines[i][2])])
            /\ kv.stage = "serialized" =>
                  /\ kv.s.err = "none"
                  /\ IsInfix(HeaderText(lines), kv.s.ret)

(***************************************************************************)
(* The object store in use (Spec).  A caller builds objects, reads and     *)
(* writes them and hashes files.  The repository is also written by the    *)
(* reference git client, which is where its commits, tags and filled trees *)
(* come from, and whose object files may be damaged.                       *)
(***************************************************************************)
MaxFiles == 1

d_a == <<97>>
d_hello == <<104, 101, 108, 108, 111, NL>>
b_object == <<111, 98, 106, 101, 99, 116>>
\* 100644 a NUL <the blob a>
t_one == <<49, 48, 48, 54, 52, 52, SP, 97, NUL>> \o Sha1(Frame(b_blob, d_a))
c_one == KvText(<< <<b_tree, Sha1Hex(Frame(b_tree, t_one))>> >>, <<109, NL>>)
g_one == KvText(<< <<b_object, Sha1Hex(Frame(b_commit, c_one))>> >>, <<116, NL>>)

\* The bytes a caller builds an object from or hashes, by type.
DataOf(fmt) ==
    IF fmt = b_blob THEN {<<>>, d_a, d_hello}
    ELSE IF fmt = b_tree THEN {<<>>, t_one}
    ELSE IF fmt = b_commit THEN {<<>>, c_one}
    ELSE {<<>>, g_one}

\* The frames the reference client stores.
GoodFrames ==
    {Frame(b_blob, d) : d \in DataOf(b_blob)} \cup {Frame(b_tree, d) : d \in DataOf(b_tree)}
        \cup {Frame(b_commit, c_one), Frame(b_tag, g_one)}
b_blub == <<98, 108, 117, 98>>
\* Damaged frames: blob 3 NUL ab, blub 2 NUL ab, blub 3 NUL ab, blob 7X (no
\* NUL), blob x NUL ab.
BadFrames ==
    { b_blob \o <<SP, 51, NUL, 97, 98>>, b_blub \o <<SP, 50, NUL, 97, 98>>,
      b_blub \o <<SP, 51, NUL, 97, 98>>, b_blob \o <<SP, 55, 88>>,
      b_blob \o <<SP, 120, NUL, 97, 98>> }
StoredFrames == GoodFrames \cup BadFrames
Identities == {Sha1Hex(f) : f \in StoredFrames}

\* The digest tells the frames of the model apart.
NoCollision == \A f, g \in StoredFrames : Sha1Hex(f) = Sha1Hex(g) => f = g

Init ==
    /\ dirs = {}
    /\ files = <<>>
    /\ held = NoObject
    /\ last = NoOp
    /\ graph = <<>>
    /\ work = <<>>
    /\ procs = <<>>
    /\ kv = KvIdle

\* The reference client stores a frame under its digest.
ExternalPut(raw) ==
    /\ Cardinality(DOMAIN files) < MaxFiles
    /\ \E sha \in {Sha1Hex(raw)} :
       /\ ObjectPath(sha) \notin DOMAIN files
       /\ dirs' = dirs \cup {ObjectPath(sha)[1]}
       /\ files' = [p \in DOMAIN files \cup {ObjectPath(sha)} |->
                       IF p = ObjectPath(sha) THEN ZlibCompress(raw) ELSE files[p]]
       /\ last' = [NoOp EXCEPT !.op = "put", !.sha = sha]
       /\ UNCHANGED <<held, kv, graph, work, procs>>

\* The caller builds an object: GitBlob(data), GitTree(data), GitCommit(data),
\* GitTag(data).
New(fmt, data) ==
    \E c \in {Construct(fmt, data)} :
       /\ held' = IF c.err = "none" THEN c.obj ELSE held
       /\ last' = [NoOp EXCEPT !.op = "new", !.err = c.err, !.obj = c.obj]
       /\ UNCHANGED <<dirs, files, kv, graph, work, procs>>

\* object_read(repo, sha); the caller keeps the object it returns.
ObjectRead(sha) ==
    \E r \in {object_read(dirs, files, sha)} :
       /\ held' = IF r.err = "none" THEN r.obj ELSE held
       /\ last' = [NoOp EXCEPT !.op = "read", !.sha = sha, !.err = r.err,
                               !.obj = r.obj]
       /\ UNCHANGED <<dirs, files, kv, graph, work, procs>>

\* object_write(held, repo), repo given or None.
ObjectWrite(repo) ==
    \E w \in {object_write(held, repo, dirs, files)} :
       /\ held # NoObject
       /\ repo => Cardinality(DOMAIN files) < MaxFiles \/ ~w.wrote
       /\ dirs' = w.dirs
       /\ files' = w.files
       /\ held' = w.obj
       /\ last' = [NoOp EXCEPT !.op = "write", !.sha = w.sha, !.err = w.err,
                               !.wrote = w.wrote, !.repo = repo, !.obj = held,
                               !.prev = Summary(last)]
       /\ UNCHANGED <<kv, graph, work, procs>>

\* cmd_hash_object: object_hash(fd, fmt, repo), repo given (-w) or None.
ObjectHash(fmt, data, repo) ==
    \E w \in {object_hash(data, fmt, repo, dirs, files)} :
       /\ repo => Cardinality(DOMAIN files) < MaxFiles \/ ~w.wrote
       /\ dirs' = w.dirs
       /\ files' = w.files
       /\ last' = [NoOp EXCEPT !.op = "hash", !.sha = w.sha, !.err = w.err,
                               !.wrote = w.wrote, !.repo = repo, !.fmt = fmt,
                               !.data = data,
                               !.pre = [dirs |-> dirs, files |-> files]]
       /\ UNCHANGED <<held, kv, graph, work, procs>>

Next ==
    \/ \E raw \in StoredFrames : ExternalPut(raw)
    \/ \E fmt \in Formats : \E data \in DataOf(fmt) : New(fmt, data)
    \/ \E sha \in Identities : ObjectRead(sha)
    \/ \E repo \in BOOLEAN : ObjectWrite(repo)
    \/ \E fmt \in Formats : \E data \in DataOf(fmt) : \E repo \in BOOLEAN :
          ObjectHash(fmt, data, repo)

Spec == Init /\ [][Next]_vars

(***************************************************************************)
(* Claims about the object store (Spec)                                    *)
(***************************************************************************)
\* The frame stored under an identity.
StoredRaw(sha) == ZlibDecompress(files[ObjectPath(sha)]).raw

\* C1: two object_write(obj, repo) calls in a row on the same object both
\* return, with the same identity; the file of that identity exists, and the
\* second call does not open it for writing.
C1_IdempotentWrite ==
    ( /\ last.op = "write" /\ last.repo
      /\ last.prev.op = "write" /\ last.prev.repo )
    => /\ last.prev.err = "none"
       /\ last.err = "none"
       /\ last.sha = last.prev.sha
       /\ ObjectPath(last.sha) \in DOMAIN files
       /\ ~last.wrote

\* C2: writing a blob of payload b to the repository returns the digest of
\* the frame "blob <len(b)> NUL b", and object_read of that identity then
\* returns a blob whose serialized payload is b: for every payload, the empty
\* one included.
C2_BlobRoundTrip ==
    \A b \in DataOf(b_blob) :
        ( /\ last.op = "write" /\ last.repo
          /\ last.obj = GitBlob(b).obj )
        => /\ last.err = "none"
           /\ last.sha = Sha1Hex(Frame(b_blob, b))
           /\ \E r \in {object_read(dirs, files, last.sha)} :
                 /\ r.err = "none"
                 /\ r.obj.fmt = b_blob
                 /\ Serialize(r.obj).err = "none"
                 /\ Serialize(r.obj).ret = b

\* C3: an object of any variant that the store holds under identity i, read
\* with object_read and passed unmodified to object_write, is given identity
\* i again.
C3_ContentAddressing ==
    ( /\ last.op = "write"
      /\ last.prev.op = "read" /\ last.prev.err = "none"
      /\ ObjectPath(last.prev.sha) \in DOMAIN files
      /\ StoredRaw(last.prev.sha) \in GoodFrames )
    => /\ last.err = "none"
       /\ last.sha = last.prev.sha

\* C9: object_read of an identity with no file at its path fails with
\* ObjectNotFound, whether or not the two-character subdirectory exists, and
\* creates no file and no directory.
C9_ReadMissing ==
    [][ ( /\ last'.op = "read"
          /\ ObjectPath(last'.sha) \notin DOMAIN files )
        => ( /\ last'.err = "ObjectNotFound"
             /\ dirs' = dirs
             /\ files' = files ) ]_vars

\* C10: object_read returns an object only for a frame made of a known type
\* tag, a space, a decimal length, a NUL and a payload of that length; a
\* frame whose length is not the payload's fails with MalformedObject, one of
\* the right length and another tag with UnknownObjectType, and a failed read
\* returns no object.
C10_FrameValidation ==
    ( last.op = "read" /\ ObjectPath(last.sha) \in DOMAIN files )
    => LET raw == StoredRaw(last.sha)
           x == Find(raw, SP, 0)
           y == Find(raw, NUL, 0)
           framed == x >= 0 /\ y > x
           size == PyInt(Slice(raw, x, y))
           sized == framed /\ size.err = "none"
           fits == sized /\ size.val = Len(raw) - y - 1
       IN /\ last.err = "none" => fits /\ Slice(raw, 0, x) \in Formats
          /\ (sized /\ ~fits) => last.err = "MalformedObject"
          /\ (fits /\ Slice(raw, 0, x) \notin Formats) => last.err = "UnknownObjectType"
          /\ last.err # "none" => last.obj = NoObject

\* C15: object_hash of any type and payload, the empty payload included,
\* returns the identity of the frame, with a repository and without one, and
\* without a repository it leaves the store as it was.
C15_PureHashing ==
    last.op = "hash"
    => /\ last.err = "none"
       /\ last.sha = Sha1Hex(Frame(last.fmt, last.data))
       /\ ~last.repo => (dirs = last.pre.dirs /\ files = last.pre.files)

(***************************************************************************)
(* kvlm_parse on arbitrary bytes (SpecKvlmRaw): the input is any byte      *)
(* string over a letter, the space and the newline, up to MaxLen bytes.    *)
(***************************************************************************)
MaxLen == 5

RawAlphabet == {97, SP, NL}
RawInputs == UNION {[1..n -> RawAlphabet] : n \in 0..MaxLen}

InitKvlmRaw ==
    /\ \E x \in RawInputs : kv = [KvIdle EXCEPT !.stage = "input", !.x = x]
    /\ StoreIdle

SpecKvlmRaw == InitKvlmRaw /\ [][NextKvlm]_vars

\* C18: kvlm_parse of any byte string terminates, and either returns a
\* mapping that has the message slot or fails with MalformedObject (the
\* failed assert of the base case is taken for it); it does not loop for
\* ever, fail with another error, or return a mapping without the slot.
C18_MalformedInput ==
    kv.stage = "parsed"
    => \/ kv.p.err = "none" /\ HasKey(kv.p.dct, KeyNone)
       \/ kv.p.err \in {"MalformedObject", "AssertionError"}

(***************************************************************************)
(* The commit graph (SpecLog).  The reference client commits into the      *)
(* repository; log_graphviz is started at a commit with a seen set.        *)
(***************************************************************************)
MaxCommits == 4

m_one == <<49, NL>>
m_two == <<50, NL>>
EmptyTreeId == Sha1Hex(Frame(b_tree, <<>>))

\* tree, one parent line per parent, a blank line, the message.
CommitText(parents, msg) ==
    KvText(<< <<b_tree, EmptyTreeId>> >> \o [i \in 1..Len(parents) |-> <<b_parent, parents[i]>>],
           msg)

\* The parents a new commit may name: none, one commit, or two different ones.
ParentLists(commits) ==
    {<<>>} \cup {<<c>> : c \in commits}
           \cup {pr \in commits \X commits : pr[1] # pr[2]}

\* The reference client stores a commit whose parents are in the store.
ExternalCommit(parents, msg) ==
    /\ Cardinality(DOMAIN graph) < MaxCommits
    /\ \E raw \in {Frame(b_commit, CommitText(parents, msg))} :
       \E sha \in {Sha1Hex(raw)} :
       /\ sha \notin DOMAIN graph
       /\ dirs' = dirs \cup {ObjectPath(sha)[1]}
       /\ files' = [p \in DOMAIN files \cup {ObjectPath(sha)} |->
                       IF p = ObjectPath(sha) THEN ZlibCompress(raw) ELSE files[p]]
       /\ graph' = [c \in DOMAIN graph \cup {sha} |->
                       IF c = sha THEN parents ELSE graph[c]]
       /\ last' = [NoOp EXCEPT !.op = "commit", !.sha = sha]
       /\ UNCHANGED <<held, kv, work, procs>>

\* log_graphviz(repo, sha, seen); cmd_log passes set().
LogGraphviz(sha, seen0) ==
    \E t \in {log_graphviz(dirs, files, sha,
                           [err |-> "none", out |-> <<>>, seen |-> seen0, loads |-> <<>>])} :
       /\ last' = [NoOp EXCEPT !.op = "log", !.sha = sha, !.seen0 = seen0,
                               !.err = t.err, !.out = t.out, !.loads = t.loads]
       /\ UNCHANGED <<dirs, files, held, kv, graph, work, procs>>

NextLog ==
    \/ \E parents \in ParentLists(DOMAIN graph) : \E msg \in {m_one, m_two} :
          ExternalCommit(parents, msg)
    \/ \E sha \in DOMAIN graph : \E seen0 \in {{}, {sha}} : LogGraphviz(sha, seen0)

SpecLog == Init /\ [][NextLog]_vars

(***************************************************************************)
(* Claims about the traversal (SpecLog).  graph records the parents of     *)
(* every commit in the store, which name earlier commits only.             *)
(***************************************************************************)
RECURSIVE Reachable(_)
Reachable(c) ==
    {c} \cup UNION {Reachable(graph[c][i]) : i \in 1..Len(graph[c])}

NodeLinesOf(out, c) == {i \in 1..Len(out) : out[i][1] = "node" /\ out[i][2] = c}

\* C7: log_graphviz started at a commit with an empty seen set emits the node
\* descriptor of every commit reachable from the start exactly once.
C7_TraversalUniqueness ==
    (last.op = "log" /\ last.seen0 = {})
    => \A c \in Reachable(last.sha) : Cardinality(NodeLinesOf(last.out, c)) = 1

\* C8: log_graphviz started at any commit returns, having loaded no commit
\* twice; started at a commit of the seen set it returns without loading or
\* emitting anything.
C8_TraversalTermination ==
    last.op = "log"
    => /\ last.err = "none"
       /\ \A i, j \in 1..Len(last.loads) : last.loads[i] = last.loads[j] => i = j
       /\ last.sha \in last.seen0 => last.loads = <<>> /\ last.out = <<>>

(***************************************************************************)
(* Checkout (SpecCheckout).  The destination args.path is the path <<>> of *)
(* work; a path below it is the sequence of its names.                     *)
(***************************************************************************)
Dir == [data |-> <<>>, kind |-> "dir"]
File(data) == [data |-> data, kind |-> "file"]
\* os.mkdir(p), open(p, "wb") and f.write: p becomes node.
PutPath(w, p, node) == [q \in DOMAIN w \cup {p} |-> IF q = p THEN node ELSE w[q]]

\* tree_checkout(repo, tree, path), the items of tree from the first on: the
\* exception that ended it, if any, and the destination as it leaves it.
\* checkout_item is the loop body for the object r that object_read gave.
RECURSIVE tree_checkout(_, _, _, _, _)
RECURSIVE checkout_item(_, _, _, _, _, _)
checkout_item(ds, fs, items, path, w, r) ==
    LET dest == Append(path, Head(items).path)
    IN IF r.err # "none" THEN [work |-> w, err |-> r.err]
       ELSE IF r.obj.fmt = b_tree
       THEN IF dest \in DOMAIN w THEN [work |-> w, err |-> "FileExistsError"]
            ELSE CHOOSE res \in
                    { IF sub.err # "none" THEN sub
                      ELSE tree_checkout(ds, fs, Tail(items), path, sub.work)
                      : sub \in {tree_checkout(ds, fs, r.obj.items, dest,
                                               PutPath(w, dest, Dir))} } : TRUE
       ELSE IF r.obj.fmt = b_blob
       THEN IF dest \in DOMAIN w /\ w[dest].kind = "dir"
            THEN [work |-> w, err |-> "IsADirectoryError"]
            ELSE IF ~r.obj.has_blobdata
            THEN [work |-> PutPath(w, dest, File(<<>>)), err |-> "AttributeError"]
            ELSE tree_checkout(ds, fs, Tail(items), path,
                               PutPath(w, dest, File(r.obj.blobdata)))
       ELSE tree_checkout(ds, fs, Tail(items), path, w)

tree_checkout(ds, fs, items, path, w) ==
    IF items = <<>> THEN [work |-> w, err |-> "none"]
    ELSE CHOOSE res \in
            { checkout_item(ds, fs, items, path, w, r)
              : r \in {object_read(ds, fs, Head(items).sha)} } : TRUE

\* The first half of cmd_checkout, for the object r that object_read gave
\* for the name: a commit is replaced by the tree its kvlm names.
checkout_object(ds, fs, r) ==
    IF r.err # "none" THEN r
    ELSE IF r.obj.fmt # b_commit THEN r
    ELSE IF ~HasKey(r.obj.kvlm, Bytes(b_tree)) THEN ReadFails("KeyError")
    ELSE IF ~IsBytes(GetItem(r.obj.kvlm, Bytes(b_tree))) THEN ReadFails("AttributeError")
    ELSE IF ~IsAscii(GetItem(r.obj.kvlm, Bytes(b_tree))[2])
    THEN ReadFails("UnicodeDecodeError")
    ELSE CHOOSE res \in
            { IF t.err # "none" THEN t
              ELSE IF t.obj.fmt # b_tree THEN ReadFails("AssertionError")
              ELSE t
              : t \in {object_read(ds, fs, GetItem(r.obj.kvlm, Bytes(b_tree))[2])} } : TRUE

\* The second half, for the object o the first half gave.  The two
\* exceptions cmd_checkout raises itself are named NotADirectory ("Not not a
\* directory ...") and DestinationNotEmpty ("Not empty ...").
checkout_into(ds, fs, o, w) ==
    IF o.err # "none" THEN [work |-> w, err |-> o.err]
    ELSE IF <<>> \in DOMAIN w /\ w[<<>>].kind # "dir"
    THEN [work |-> w, err |-> "NotADirectory"]
    ELSE IF <<>> \in DOMAIN w /\ DOMAIN w # {<<>>}
    THEN [work |-> w, err |-> "DestinationNotEmpty"]
    ELSE IF o.obj.fmt # b_tree
    THEN [work |-> PutPath(w, <<>>, Dir), err |-> "AssertionError"]
    ELSE tree_checkout(ds, fs, o.obj.items, <<>>, PutPath(w, <<>>, Dir))

\* cmd_checkout(args), args.commit = name.
cmd_checkout(ds, fs, name, w) ==
    CHOOSE res \in
        { checkout_into(ds, fs, o, w)
          : o \in { checkout_object(ds, fs, r) : r \in {object_read(ds, fs, name)} } } : TRUE

MaxObjects == 3

n_d == <<100>>
n_x == <<120>>
\* 40000 d NUL <the tree t_one>, 100644 a NUL <the blob a>
t_two == <<52, 48, 48, 48, 48, SP>> \o n_d \o <<NUL>> \o Sha1(Frame(b_tree, t_one))
             \o t_one
\* The objects the other client stores: a blob, a tree of it, a tree with
\* that tree as a subdirectory, a commit of the first tree and a tag.
CheckoutFrames ==
    { Frame(b_blob, d_a), Frame(b_tree, t_one), Frame(b_tree, t_two),
      Frame(b_commit, c_one), Frame(b_tag, g_one) }

\* The other client stores an object.
ExternalStore(raw) ==
    /\ Cardinality(DOMAIN files) < MaxObjects
    /\ \E sha \in {Sha1Hex(raw)} :
       /\ ObjectPath(sha) \notin DOMAIN files
       /\ dirs' = dirs \cup {ObjectPath(sha)[1]}
       /\ files' = [p \in DOMAIN files \cup {ObjectPath(sha)} |->
                       IF p = ObjectPath(sha) THEN ZlibCompress(raw) ELSE files[p]]
       /\ last' = [NoOp EXCEPT !.op = "put", !.sha = sha]
       /\ UNCHANGED <<held, kv, graph, work, procs>>

\* The user prepares the destination: an empty directory, a file in the
\* directory, or a regular file in its place.
DestMkdir ==
    /\ <<>> \notin DOMAIN work
    /\ work' = PutPath(work, <<>>, Dir)
    /\ last' = [NoOp EXCEPT !.op = "mkdir"]
    /\ UNCHANGED <<dirs, files, held, kv, graph, procs>>

DestTouch ==
    /\ <<>> \in DOMAIN work
    /\ work[<<>>].kind = "dir"
    /\ <<n_x>> \notin DOMAIN work
    /\ work' = PutPath(work, <<n_x>>, File(<<>>))
    /\ last' = [NoOp EXCEPT !.op = "touch"]
    /\ UNCHANGED <<dirs, files, held, kv, graph, procs>>

DestFile ==
    /\ <<>> \notin DOMAIN work
    /\ work' = PutPath(work, <<>>, File(<<>>))
    /\ last' = [NoOp EXCEPT !.op = "mkfile"]
    /\ UNCHANGED <<dirs, files, held, kv, graph, procs>>

\* ahg checkout <name> <path>
CmdCheckout(name) ==
    \E c \in {cmd_checkout(dirs, files, name, work)} :
       /\ work' = c.work
       /\ last' = [NoOp EXCEPT !.op = "checkout", !.sha = name, !.err = c.err,
                               !.pre = work]
       /\ UNCHANGED <<dirs, files, held, kv, graph, procs>>

NextCheckout ==
    \/ \E raw \in CheckoutFrames : ExternalStore(raw)
    \/ DestMkdir
    \/ DestTouch
    \/ DestFile
    \/ \E raw \in CheckoutFrames : CmdCheckout(Sha1Hex(raw))

SpecCheckout == Init /\ [][NextCheckout]_vars

(***************************************************************************)
(* Claims about checkout (SpecCheckout)                                    *)
(***************************************************************************)
Stored(raw) ==
    /\ ObjectPath(Sha1Hex(raw)) \in DOMAIN files
    /\ StoredRaw(Sha1Hex(raw)) = raw

\* The named object is a stored tree, or a stored commit whose tree is
\* stored.
NamesATree(sha) ==
    \/ sha = Sha1Hex(Frame(b_tree, t_one)) /\ Stored(Frame(b_tree, t_one))
    \/ sha = Sha1Hex(Frame(b_tree, t_two)) /\ Stored(Frame(b_tree, t_two))
    \/ /\ sha = Sha1Hex(Frame(b_commit, c_one))
       /\ Stored(Frame(b_commit, c_one))
       /\ Stored(Frame(b_tree, t_one))

DestNonEmpty(w) ==
    /\ <<>> \in DOMAIN w
    /\ w[<<>>].kind = "dir"
    /\ DOMAIN w # {<<>>}

\* C11: a checkout of a commit or tree into a destination that exists and is
\* a directory with something in it fails with DestinationNotEmpty and leaves
\* the destination as it was.
C11_CheckoutPrecondition ==
    (last.op = "checkout" /\ DestNonEmpty(last.pre) /\ NamesATree(last.sha))
    => /\ last.err = "DestinationNotEmpty"
       /\ work = last.pre

\* What the entries of the stored tree sha and of its subtrees are to become
\* below path: a directory per tree entry, a file of the blob's bytes per
\* blob entry.
RECURSIVE Materialized(_, _)
Materialized(sha, path) ==
    LET raw == StoredRaw(sha)
        items == tree_parse(SliceFrom(raw, Find(raw, NUL, 0) + 1)).items
        target(i) == StoredRaw(items[i].sha)
        payload(i) == SliceFrom(target(i), Find(target(i), NUL, 0) + 1)
    IN UNION { IF StartsWith(target(i), b_tree)
               THEN {<<Append(path, items[i].path), Dir>>}
                       \cup Materialized(items[i].sha, Append(path, items[i].path))
               ELSE {<<Append(path, items[i].path), File(payload(i))>>}
               : i \in 1..Len(items) }

\* The tree and everything below it is in the store.
TreeComplete(sha) ==
    \/ /\ sha = Sha1Hex(Frame(b_tree, t_one))
       /\ Stored(Frame(b_tree, t_one)) /\ Stored(Frame(b_blob, d_a))
    \/ /\ sha = Sha1Hex(Frame(b_tree, t_two))
       /\ Stored(Frame(b_tree, t_two)) /\ Stored(Frame(b_tree, t_one))
       /\ Stored(Frame(b_blob, d_a))

\* C17: a checkout of a stored tree into an empty destination directory
\* returns, and the destination then holds exactly one path per entry of the
\* tree and of its subtrees: a directory for a tree, a file of the blob's
\* bytes for a blob.
C17_CheckoutMaterializes ==
    (last.op = "checkout" /\ last.pre = PutPath(<<>>, <<>>, Dir) /\ TreeComplete(last.sha))
    => /\ last.err = "none"
       /\ DOMAIN work = {<<>>} \cup {m[1] : m \in Materialized(last.sha, <<>>)}
       /\ \A m \in Materialized(last.sha, <<>>) : work[m[1]] = m[2]

(***************************************************************************)
(* The tree codec on its own (SpecTree): a caller parses the bytes of a    *)
(* tree into the items of a tree object and serializes the object.         *)
(***************************************************************************)
MaxEntries == 3

m_40000 == <<52, 48, 48, 48, 48>>
m_040000 == <<48, 52, 48, 48, 48, 48>>
m_100644 == <<49, 48, 48, 54, 52, 52>>
m_100755 == <<49, 48, 48, 55, 53, 53>>
m_120000 == <<49, 50, 48, 48, 48, 48>>
n_bar == <<98, 97, 114>>
n_bar_txt == n_bar \o <<46, 116, 120, 116>>
n_bar0 == n_bar \o <<48>>
n_bar_z == n_bar \o <<45, 122>>
n_foo == <<102, 111, 111>>

\* An entry as the other client writes it: mode, space, path, NUL and the 20
\* bytes of the identity.
EntryBytes(mode, path, k) == mode \o <<SP>> \o path \o <<NUL>> \o Rep(DigestSize, k)
TreeEntries ==
    { EntryBytes(m_40000, n_bar, 1), EntryBytes(m_100644, n_bar_txt, 2),
      EntryBytes(m_100644, n_bar0, 3), EntryBytes(m_100755, d_a, 4),
      EntryBytes(m_120000, n_bar_z, 5), EntryBytes(m_040000, n_foo, 6) }

RECURSIVE Concat(_)
Concat(seqs) == IF seqs = <<>> THEN <<>> ELSE Head(seqs) \o Concat(Tail(seqs))
TreeRaws == {Concat(es) : es \in UNION {[1..n -> TreeEntries] : n \in 0..MaxEntries}}

\* obj = GitTree(); obj.items = tree_parse(raw), once per run.
TreeParse(raw) ==
    /\ held = NoObject
    /\ \E t \in {tree_parse(raw)} :
       /\ held' = IF t.err = "none"
                  THEN [NoObject EXCEPT !.fmt = b_tree, !.items = t.items]
                  ELSE held
       /\ last' = [NoOp EXCEPT !.op = "tree_parse", !.err = t.err, !.data = raw]
       /\ UNCHANGED <<dirs, files, kv, graph, work, procs>>

\* tree_serialize(obj): last.obj is the object as it was, last.data the bytes
\* returned.
TreeSerialize ==
    /\ held.fmt = b_tree
    /\ \E t \in {tree_serialize(held.items)} :
       /\ held' = [held EXCEPT !.items = t.items]
       /\ last' = [NoOp EXCEPT !.op = "tree_serialize", !.data = t.ret, !.obj = held]
       /\ UNCHANGED <<dirs, files, kv, graph, work, procs>>

NextTree ==
    \/ \E raw \in TreeRaws : TreeParse(raw)
    \/ TreeSerialize

SpecTree == Init /\ [][NextTree]_vars

(***************************************************************************)
(* Claims about the tree codec (SpecTree)                                  *)
(***************************************************************************)
IsTreeMode(mode) == LStrip(mode) \in {m_40000, m_040000}
IsFileMode(mode) == mode \in {m_100644, m_100755}
\* The composite key of the canonical order.
CompositeKey(leaf) ==
    IF IsTreeMode(leaf.mode) THEN leaf.path \o <<SLASH>> ELSE leaf.path
Occurrences(items, leaf) == Cardinality({i \in 1..Len(items) : items[i] = leaf})
\* The entries of the bytes tree_serialize returned, in their order.  Among
\* the bytes of the entries of TreeEntries only identity bytes lie between
\* NUL and the space, and the identity tells the entries apart.
IdBytes(data) == SelectSeq(data, LAMBDA b : b > NUL /\ b < SP)
EmittedIds ==
    [i \in 1..(Len(IdBytes(last.data)) \div DigestSize) |->
        IdBytes(last.data)[DigestSize * i]]
Emitted ==
    [i \in DOMAIN EmittedIds |->
        CHOOSE leaf \in {last.obj.items[k] : k \in 1..Len(last.obj.items)} :
            leaf.sha = HexOf(Rep(DigestSize, EmittedIds[i]))]

\* C12: tree_serialize emits a permutation of the object's entries in which
\* tree and regular-file entries stand in the order of the composite key (a
\* tree entry compared as path + "/", a regular file as its path), whatever
\* their order in the object; so bar.txt (a file) comes before bar (a tree).
C12_CanonicalOrder ==
    last.op = "tree_serialize"
    => /\ Len(Emitted) = Len(last.obj.items)
       /\ \A i \in 1..Len(Emitted) :
             Occurrences(Emitted, Emitted[i]) = Occurrences(last.obj.items, Emitted[i])
       /\ \A i, j \in 1..Len(Emitted) :
             ( /\ i < j
               /\ IsTreeMode(Emitted[i].mode) \/ IsFileMode(Emitted[i].mode)
               /\ IsTreeMode(Emitted[j].mode) \/ IsFileMode(Emitted[j].mode) )
             => ~StrLess(CompositeKey(Emitted[j]), CompositeKey(Emitted[i]))

\* The object held bar (a tree) before bar.txt (a file) and a third entry,
\* and the bytes returned have bar.txt before bar.
C12_Witness ==
    /\ last.op = "tree_serialize"
    /\ Len(last.obj.items) = MaxEntries
    /\ last.obj.items[1].path = n_bar /\ IsTreeMode(last.obj.items[1].mode)
    /\ last.obj.items[2].path = n_bar_txt /\ IsFileMode(last.obj.items[2].mode)
    /\ \E i, j \in 1..Len(Emitted) :
          /\ i < j
          /\ Emitted[i].path = n_bar_txt
          /\ Emitted[j].path = n_bar /\ IsTreeMode(Emitted[j].mode)

\* The mode as six octal digits, zero-padded.
Mode6(mode) == Rep(6 - Len(LStrip(mode)), 48) \o LStrip(mode)
Rendered(leaf) ==
    Mode6(leaf.mode) \o <<SP>> \o leaf.path \o <<NUL>> \o ShaToBytes(leaf.sha)

\* C16: tree_serialize emits, for every entry, the mode as exactly six ASCII
\* octal digits, zero-padded, then a space, the path, NUL and the 20 identity
\* bytes; also for an entry whose mode had 5 digits when it was parsed.
C16_ModeRendering ==
    last.op = "tree_serialize"
    => last.data = Concat([i \in 1..Len(held.items) |-> Rendered(held.items[i])])

(***************************************************************************)
(* Concurrent calls on one store (SpecRace).  Every process is one call    *)
(* in progress: a writer runs object_write(obj, repo) on its own copy of   *)
(* the same blob, a reader runs object_read(repo, sha) for the blob's      *)
(* identity and may call again.  A step is one access to the file system;  *)
(* the steps of the processes interleave in any order.                     *)
(***************************************************************************)
MaxWriters == 2
MaxReaders == 1
MaxReads == 2

d_ab == <<97, 98>>
RaceData == {d_a, d_ab}

\* result, sha and the path of object_write for the blob held.
RaceFrame == Frame(held.fmt, Serialize(held).ret)
RaceSha == Sha1Hex(RaceFrame)
RacePath == ObjectPath(RaceSha)
RaceDir == RacePath[1]
RaceBytes == ZlibCompress(RaceFrame)

NewProc(kind) ==
    [err |-> "none", sha |-> <<>>, data |-> <<>>, obj |-> NoObject, kind |-> kind,
     pc |-> "start", complete |-> FALSE, reads |-> 0]

\* open(path, "wb") creates the file or truncates it; f.write replaces what
\* the file holds from its start.
PutFile(fs, path, bytes) ==
    [q \in DOMAIN fs \cup {path} |-> IF q = path THEN bytes ELSE fs[q]]

InitRace ==
    /\ \E data \in RaceData : held = GitBlob(data).obj
    /\ \E nw \in 1..MaxWriters, nr \in 0..MaxReaders :
          procs = [i \in 1..(nw + nr) |->
                     IF i <= nw THEN NewProc("writer") ELSE NewProc("reader")]
    /\ dirs \in {{}, {RaceDir}}
    /\ files = <<>>
    /\ last = NoOp
    /\ kv = KvIdle
    /\ graph = <<>>
    /\ work = <<>>

At(p, kind, pc) == procs[p].kind = kind /\ procs[p].pc = pc

\* repo_dir: os.path.exists(full_path), os.path.isdir(full_path)
WriteDirCheck(p) ==
    /\ At(p, "writer", "start")
    /\ procs' = [procs EXCEPT ![p].pc = IF RaceDir \in dirs THEN "filecheck"
                                        ELSE "mkdir"]
    /\ UNCHANGED <<dirs, files, held, last, kv, graph, work>>

\* repo_dir: os.makedirs(full_path), a FileExistsError if the directory is
\* there by now.
WriteMkdir(p) ==
    /\ At(p, "writer", "mkdir")
    /\ IF RaceDir \in dirs
       THEN /\ procs' = [procs EXCEPT ![p].pc = "done", ![p].err = "FileExistsError"]
            /\ dirs' = dirs
       ELSE /\ procs' = [procs EXCEPT ![p].pc = "filecheck"]
            /\ dirs' = dirs \cup {RaceDir}
    /\ UNCHANGED <<files, held, last, kv, graph, work>>

\* object_write: if not os.path.exists(path), else return sha
WriteFileCheck(p) ==
    /\ At(p, "writer", "filecheck")
    /\ procs' = IF RacePath \in DOMAIN files
                THEN [procs EXCEPT ![p].pc = "done", ![p].sha = RaceSha]
                ELSE [procs EXCEPT ![p].pc = "open"]
    /\ UNCHANGED <<dirs, files, held, last, kv, graph, work>>

\* object_write: open(path, "wb")
WriteOpen(p) ==
    /\ At(p, "writer", "open")
    /\ files' = PutFile(files, RacePath, <<>>)
    /\ procs' = [procs EXCEPT ![p].pc = "write"]
    /\ UNCHANGED <<dirs, held, last, kv, graph, work>>

\* object_write: f.write(zlib.compress(result)), the file is closed, return sha
WriteBytes(p) ==
    /\ At(p, "writer", "write")
    /\ files' = PutFile(files, RacePath, RaceBytes)
    /\ procs' = [procs EXCEPT ![p].pc = "done", ![p].sha = RaceSha]
    /\ UNCHANGED <<dirs, held, last, kv, graph, work>>

\* object_read: repo_file(repo, "objects", sha[0:2], sha[2:]) is None when
\* the directory is absent, and os.path.isfile(None) is a TypeError.
ReadDirCheck(p) ==
    /\ At(p, "reader", "start")
    /\ procs' = IF RaceDir \in dirs
                THEN [procs EXCEPT ![p].pc = "filecheck"]
                ELSE [procs EXCEPT ![p].pc = "done", ![p].err = "TypeError"]
    /\ UNCHANGED <<dirs, files, held, last, kv, graph, work>>

\* object_read: if not os.path.isfile(path): raise "Object ... not found!"
ReadFileCheck(p) ==
    /\ At(p, "reader", "filecheck")
    /\ procs' = IF RacePath \in DOMAIN files
                THEN [procs EXCEPT ![p].pc = "open"]
                ELSE [procs EXCEPT ![p].pc = "done", ![p].err = "ObjectNotFound"]
    /\ UNCHANGED <<dirs, files, held, last, kv, graph, work>>

\* object_read: open(path, "rb"), f.read() and the rest of the call on the
\* bytes read.  data is what the file held, complete whether this call or an
\* earlier one of the process found the whole compressed frame.
ReadFile(p) ==
    /\ At(p, "reader", "open")
    /\ \E r \in {object_read({RaceDir}, PutFile(<<>>, RacePath, files[RacePath]),
                             RaceSha)} :
          procs' = [procs EXCEPT ![p].pc = "done", ![p].err = r.err,
                                 ![p].obj = r.obj, ![p].data = files[RacePath],
                                 ![p].complete = @ \/ files[RacePath] = RaceBytes]
    /\ UNCHANGED <<dirs, files, held, last, kv, graph, work>>

\* The caller calls object_read again.
ReadAgain(p) ==
    /\ At(p, "reader", "done")
    /\ procs[p].reads + 1 < MaxReads
    /\ procs' = [procs EXCEPT ![p] = [NewProc("reader") EXCEPT
                                         !.complete = procs[p].complete,
                                         !.reads = procs[p].reads + 1]]
    /\ UNCHANGED <<dirs, files, held, last, kv, graph, work>>

NextRace ==
    \/ \E p \in DOMAIN procs : WriteDirCheck(p)
    \/ \E p \in DOMAIN procs : WriteMkdir(p)
    \/ \E p \in DOMAIN procs : WriteFileCheck(p)
    \/ \E p \in DOMAIN procs : WriteOpen(p)
    \/ \E p \in DOMAIN procs : WriteBytes(p)
    \/ \E p \in DOMAIN procs : ReadDirCheck(p)
    \/ \E p \in DOMAIN procs : ReadFileCheck(p)
    \/ \E p \in DOMAIN procs : ReadFile(p)
    \/ \E p \in DOMAIN procs : ReadAgain(p)

SpecRace == InitRace /\ [][NextRace]_vars

(***************************************************************************)
(* Claims about concurrent calls (SpecRace)                                *)
(***************************************************************************)
Writers == {p \in DOMAIN procs : procs[p].kind = "writer"}
Readers == {p \in DOMAIN procs : procs[p].kind = "reader"}

\* C13: writers of the same object, their steps interleaved in any order, all
\* complete without error and return the same identity, and once all are
\* done the object's file holds exactly the complete compressed frame.
C13_ConcurrentWriters ==
    /\ \A p \in Writers :
          procs[p].pc = "done" => procs[p].err = "none" /\ procs[p].sha = RaceSha
    /\ (\A p \in Writers : procs[p].pc = "done")
          => RacePath \in DOMAIN files /\ files[RacePath] = RaceBytes

\* C14: a read of the identity that runs while the object is written either
\* returns the complete object or fails with ObjectNotFound; the bytes it
\* reads are never those of an empty or partial file, and once a read has
\* found the file complete the file stays complete.
C14_ReadRacingWrite ==
    \A p \in Readers :
       /\ procs[p].pc = "done"
             => \/ procs[p].err = "ObjectNotFound"
                \/ /\ procs[p].err = "none"
                   /\ procs[p].obj = held
                   /\ procs[p].data = RaceBytes
       /\ procs[p].complete
             => RacePath \in DOMAIN files /\ files[RacePath] = RaceBytes

====
